---- MODULE Spec2Model ----
(***************************************************************************)
(* Container identity enrichment cache of the eBPF profiler                *)
(* (containermetadata/k8swatcher.go): a sync.Map from canonical container  *)
(* id to a pod record restricted to one container, filled by one bootstrap *)
(* fetch (FetchK8sState) and kept up to date by a goroutine that consumes  *)
(* a Redis channel (SubscribeToRedis).                                     *)
(***************************************************************************)
EXTENDS Integers, Sequences, FiniteSets, TLC

\* ------------------------------------------------------------------ bounds
\* longest container list of a pod
MaxContainers == 2
\* longest entity list of a bootstrap response
MaxEntities == 2

\* ------------------------------------------------------------ input values
\* the node this agent runs on (argument myNode / nodeName)
myNode == "node-A"

\* (pod name, node name) of the pods the cluster reports
PodIdentities ==
  { <<"web-1", "node-A">>, <<"web-2", "node-A">>, <<"web-1", "node-B">> }

\* K8sContainer values: Id, Name. The runtime-reported ids are two spellings
\* of one container id, a further id, and a string that holds no container id.
K8sContainer ==
  { [Id |-> "docker://aa", Name |-> "app"],
    [Id |-> "containerd://aa", Name |-> "sidecar"],
    [Id |-> "docker://bb", Name |-> "db"],
    [Id |-> "pause", Name |-> "init"] }

\* sequences over S of length at most n
SeqUpTo(S, n) == UNION { [1..m -> S] : m \in 0..n }

\* those of them that list no element twice
ListsUpTo(S, n) ==
  { q \in SeqUpTo(S, n) : \A i, j \in 1..Len(q) : q[i] = q[j] => i = j }

\* the container lists of a pod; a pod lists a container once
ContainerLists == ListsUpTo(K8sContainer, MaxContainers)

\* the K8sPod value of identity i with the containers cs. Name stands for the
\* scalar fields that are copied along unchanged (name, namespace, ips,
\* owner); NodeName and Containers are the fields the reconciliation reads.
Pod(i, cs) == [Name |-> i[1], NodeName |-> i[2], Containers |-> cs]

K8sPod == { Pod(i, cs) : i \in PodIdentities, cs \in ContainerLists }

\* K8sStateResponse.Entities of n entities; a response lists a pod once
K8sStateResponse(n) ==
  { [i \in 1..n |-> Pod(ids[i], cl[i])] :
      ids \in ListsUpTo(PodIdentities, n) \cap [1..n -> PodIdentities],
      cl \in [1..n -> ContainerLists] }

\* K8sRedisEvent after json.Unmarshal of a payload. A nil *K8sEntity is the
\* empty sequence, a set one the one-element sequence. ok = FALSE is a
\* payload for which json.Unmarshal returns an error; the fields it had
\* filled in before the error are still in the event.
K8sRedisEvent ==
  [ ok : BOOLEAN,
    Modified : { <<>> } \cup { <<p>> : p \in K8sPod },
    Deleted : { <<>> },
    Refresh : { FALSE } ]
  \cup
  [ ok : { TRUE },
    Modified : { <<>> },
    Deleted : { <<p>> : p \in K8sPod },
    Refresh : { FALSE } ]
  \cup
  [ ok : { TRUE }, Modified : { <<>> }, Deleted : { <<>> }, Refresh : { TRUE } ]

\* decoded payloads that set Modified and Deleted at once, the two pointers
\* being independent fields of the struct
BothEvents ==
  [ ok : { TRUE },
    Modified : { <<p>> : p \in { x \in K8sPod : x.Name = "web-1" } },
    Deleted : { << Pod(<<"web-2", "node-A">>, <<c>>) >> : c \in K8sContainer },
    Refresh : { FALSE } ]

ModifiedEvent(p) == [ok |-> TRUE, Modified |-> <<p>>, Deleted |-> <<>>, Refresh |-> FALSE]
DeletedEvent(p) == [ok |-> TRUE, Modified |-> <<>>, Deleted |-> <<p>>, Refresh |-> FALSE]
RefreshEvent == [ok |-> TRUE, Modified |-> <<>>, Deleted |-> <<>>, Refresh |-> TRUE]
NoEvent == [ok |-> TRUE, Modified |-> <<>>, Deleted |-> <<>>, Refresh |-> FALSE]

\* ------------------------------------------------------- IdentifierMatcher
\* matchContainerID: the canonical id inside a raw id, or ("", error)
matchContainerID(raw) ==
  CASE raw = "docker://aa" -> [id |-> "aa", err |-> FALSE]
    [] raw = "containerd://aa" -> [id |-> "aa", err |-> FALSE]
    [] raw = "docker://bb" -> [id |-> "bb", err |-> FALSE]
    [] OTHER -> [id |-> "", err |-> TRUE]

\* ------------------------------------------------------------- sync.Map
EmptyMap == [k \in {} |-> 0]
\* Store that adds the containers of v to those of a record already there
StoreMerge(m, k, v) ==
  [x \in DOMAIN m \cup {k} |->
     IF x # k THEN m[x]
     ELSE IF k \in DOMAIN m
       THEN [v EXCEPT !.Containers = m[k].Containers \o v.Containers]
       ELSE v]

\* Store that keeps a record already there (LoadOrStore)
StoreIfAbsent(m, k, v) ==
  [x \in DOMAIN m \cup {k} |-> IF x \in DOMAIN m THEN m[x] ELSE v]

Store(m, k, v) == [x \in DOMAIN m \cup {k} |-> IF x = k THEN v ELSE m[x]]
Delete(m, k) == [x \in DOMAIN m \ {k} |-> m[x]]
\* Load: the one-element sequence of the value, or the empty sequence
Load(m, k) == IF k \in DOMAIN m THEN <<m[k]>> ELSE <<>>

\* ------------------------------------------------- reconciliation helpers
Min(S) == CHOOSE x \in S : \A y \in S : x <= y

Max(S) == CHOOSE x \in S : \A y \in S : x >= y

\* filteredPod without the break of the inner loop, keeping the last match
filteredPodLast(pod, id) ==
  LET hits == { i \in 1..Len(pod.Containers) :
                  matchContainerID(pod.Containers[i].Id).id = id }
  IN [pod EXCEPT !.Containers =
        IF hits = {} THEN <<>> ELSE << pod.Containers[Max(hits)] >>]

\* the copy of pod that keeps only the first container whose canonical id
\* is id (the inner loop with its break)
filteredPod(pod, id) ==
  LET hits == { i \in 1..Len(pod.Containers) :
                  matchContainerID(pod.Containers[i].Id).id = id }
  IN [pod EXCEPT !.Containers =
        IF hits = {} THEN <<>> ELSE << pod.Containers[Min(hits)] >>]

\* StoreContainers storing the pod as received, with all its containers
RECURSIVE StoreContainersUnfiltered(_, _, _)
StoreContainersUnfiltered(m, pod, i) ==
  IF i > Len(pod.Containers) THEN m
  ELSE LET r == matchContainerID(pod.Containers[i].Id)
       IN StoreContainersUnfiltered(
            IF ~r.err THEN Store(m, r.id, pod) ELSE m, pod, i + 1)

\* StoreContainers leaving the loop at the first container whose id does
\* not match
RECURSIVE StoreContainersStopOnErr(_, _, _)
StoreContainersStopOnErr(m, pod, i) ==
  IF i > Len(pod.Containers) THEN m
  ELSE LET r == matchContainerID(pod.Containers[i].Id)
       IN IF r.err THEN m
          ELSE StoreContainersStopOnErr(
                 Store(m, r.id, filteredPod(pod, r.id)), pod, i + 1)

\* the loop over pod.Containers from index i on: one Store per container
\* whose id matches
RECURSIVE StoreContainers(_, _, _)
StoreContainers(m, pod, i) ==
  IF i > Len(pod.Containers) THEN m
  ELSE LET r == matchContainerID(pod.Containers[i].Id)
       IN StoreContainers(
            IF ~r.err THEN Store(m, r.id, filteredPod(pod, r.id)) ELSE m,
            pod, i + 1)

\* DeleteContainers leaving the loop after its first Delete
RECURSIVE DeleteContainersFirst(_, _, _)
DeleteContainersFirst(m, pod, i) ==
  IF i > Len(pod.Containers) THEN m
  ELSE LET r == matchContainerID(pod.Containers[i].Id)
       IN IF ~r.err THEN Delete(m, r.id) ELSE DeleteContainersFirst(m, pod, i + 1)

\* the loop over pod.Containers from index i on: one Delete per container
\* whose id matches
RECURSIVE DeleteContainers(_, _, _)
DeleteContainers(m, pod, i) ==
  IF i > Len(pod.Containers) THEN m
  ELSE LET r == matchContainerID(pod.Containers[i].Id)
       IN DeleteContainers(IF ~r.err THEN Delete(m, r.id) ELSE m, pod, i + 1)

\* ApplyModified that first drops every record of the pod of that name
ApplyModifiedReplacePod(m, pod) ==
  IF pod.NodeName = myNode
    THEN StoreContainers(
           [k \in { x \in DOMAIN m : m[x].Name # pod.Name } |-> m[k]], pod, 1)
    ELSE m

\* ApplyModified without the comparison of the pod's node with myNode
ApplyModifiedAnyNode(m, pod) == StoreContainers(m, pod, 1)

\* event.Modified != nil branch
ApplyModified(m, pod) ==
  IF pod.NodeName = myNode THEN StoreContainers(m, pod, 1) ELSE m

\* ApplyDeleted without the comparison of the pod's node with myNode
ApplyDeletedAnyNode(m, pod) == DeleteContainers(m, pod, 1)

\* event.Deleted != nil branch
ApplyDeleted(m, pod) ==
  IF pod.NodeName = myNode THEN DeleteContainers(m, pod, 1) ELSE m

\* ApplyEvent with the Deleted branch as an if of its own, not an else
ApplyEventBoth(m, ev) ==
  IF ~ev.ok THEN m
  ELSE LET m1 == IF ev.Modified # <<>> THEN ApplyModified(m, ev.Modified[1]) ELSE m
       IN IF ev.Deleted # <<>> THEN ApplyDeleted(m1, ev.Deleted[1]) ELSE m1

\* ApplyEvent without the continue after a failed json.Unmarshal
ApplyEventNoContinue(m, ev) ==
  IF ev.Modified # <<>> THEN ApplyModified(m, ev.Modified[1])
  ELSE IF ev.Deleted # <<>> THEN ApplyDeleted(m, ev.Deleted[1])
  ELSE m

\* the body of the streaming loop after a successful receive
ApplyEvent(m, ev) ==
  IF ~ev.ok THEN m
  ELSE IF ev.Modified # <<>> THEN ApplyModified(m, ev.Modified[1])
  ELSE IF ev.Deleted # <<>> THEN ApplyDeleted(m, ev.Deleted[1])
  ELSE m

\* the "Update cache" loop of FetchK8sState over state.Entities from i on
RECURSIVE UpdateCache(_, _, _)
UpdateCache(m, entities, i) ==
  IF i > Len(entities) THEN m
  ELSE UpdateCache(
         IF entities[i].NodeName = myNode
           THEN StoreContainers(m, entities[i], 1) ELSE m,
         entities, i + 1)

\* ------------------------------------------------------------------ state
VARIABLES
  cache,      \* K8sEnricher.cache: canonical container id -> pod record
  pc,         \* position of the thread that bootstraps the enricher
  state,      \* FetchK8sState's decoded response, on record in SpecBootstrap
  outcome,    \* what the bootstrap HTTP request met, kept until the
              \* streaming goroutine has subscribed
  task,       \* position of the SubscribeToRedis goroutine
  ctx,        \* the context handed to SubscribeToRedis
  proc,       \* the process: "running", "exited" (log.Fatalf), "crashed" (panic)
  fetches,    \* number of bootstrap requests issued
  last,       \* the message the streaming loop handled last
  prev,       \* what the message handled before last was
  prevCache,  \* cache as it was before last was handled
  recvErr,    \* why ReceiveMessage returned an error, and cache at that time
  dropped,    \* the message published on the channel while nothing was
              \* subscribed to it, if there was one
  ptrs,       \* K8sEnricher.cache as the *K8sPod pointers it holds
  heap,       \* the K8sPod values those pointers, and the writer's local, point to
  writer,     \* the loop iteration the writer is in
  readers,    \* per reader, the Load it is in
  fileMap,    \* MapFileIDMapper.fileMap
  lru,        \* lruFileIDMapper.cache, most recently used entry first
  res         \* what the last Get returned from either mapper

readerVars == << ptrs, heap, writer, readers >>

mapperVars == << fileMap, lru, res >>

vars ==
  << cache, pc, state, outcome, task, ctx, proc, fetches, last, prev,
     prevCache, recvErr, dropped, readerVars, mapperVars >>

\* the goroutines that read the index
Readers == { "r1", "r2" }

\* the writer between two loop iterations, and a reader between two Loads
NoWrite == [op |-> "none"]
Idle == [phase |-> "idle"]

\* what the bootstrap request can meet. req: the transport fails, the
\* client's Timeout expires, the source answers with an error status, or it
\* answers 200. body: whether the body of an answer decodes as JSON.
Outcomes ==
  [ req : { "transportError", "timeout" }, body : { "none" } ]
    \cup [ req : { "errorStatus", "ok" }, body : { "undecodable", "json" } ]

NoOutcome == [req |-> "none", body |-> "none"]

\* the variant of a message that the loop acts on
Kind(ev) ==
  IF ~ev.ok THEN "malformed"
  ELSE IF ev.Modified # <<>> THEN "Modified"
  ELSE IF ev.Deleted # <<>> THEN "Deleted"
  ELSE IF ev.Refresh THEN "Refresh"
  ELSE "none"

\* the entity a message carries, if any
Entity(ev) == IF ev.Modified # <<>> THEN ev.Modified ELSE ev.Deleted

\* the canonical ids of the containers of a pod
Keys(pod) ==
  { matchContainerID(pod.Containers[i].Id).id :
      i \in { j \in 1..Len(pod.Containers) :
                ~matchContainerID(pod.Containers[j].Id).err } }

\* NewK8sEnricher: an empty cache, nothing fetched, no goroutine
Init ==
  /\ cache = EmptyMap
  /\ pc = "start"
  /\ state = <<>>
  /\ outcome = NoOutcome
  /\ task = "none"
  /\ ctx = "none"
  /\ proc = "running"
  /\ fetches = 0
  /\ last = NoEvent
  /\ prev = "none"
  /\ prevCache = EmptyMap
  /\ recvErr = <<>>
  /\ dropped = <<>>
  /\ ptrs = EmptyMap
  /\ heap = EmptyMap
  /\ writer = NoWrite
  /\ readers = [i \in Readers |-> Idle]
  /\ fileMap = EmptyMap
  /\ lru = <<>>
  /\ res = <<>>

\* K8sWatcherConfig.RetryAttempts as K8sWatcher sets it
RetryAttempts == 3

\* FetchK8sState tried again after an error until RetryAttempts is used up
FetchK8sStateErrorRetry ==
  /\ proc = "running" /\ pc = "start"
  /\ \E o \in Outcomes :
       /\ o.body # "json"
       /\ outcome' = o
  /\ pc' = IF fetches + 1 < RetryAttempts THEN "start" ELSE "fetchErr"
  /\ fetches' = fetches + 1
  /\ UNCHANGED << dropped, readerVars, mapperVars,
                  cache, state, task, ctx, proc, last, prev, prevCache, recvErr >>

\* FetchK8sState returning an error: k8sClient.Get fails (transport error or
\* timeout), or the body of the answer does not decode
FetchK8sStateError ==
  /\ proc = "running" /\ pc = "start"
  /\ \E o \in Outcomes :
       /\ o.body # "json"
       /\ outcome' = o
  /\ pc' = "fetchErr"
  /\ fetches' = fetches + 1
  /\ UNCHANGED << dropped, readerVars, mapperVars,
                  cache, state, task, ctx, proc, last, prev, prevCache, recvErr >>

\* FetchK8sState returning nil on the answer o with the entities body: the
\* status of the answer is not looked at, and every node-local entity is
\* stored per container. The body of an error answer holds no entities.
FetchK8sStateBody(o, body) ==
  /\ outcome' = o
  /\ cache' = UpdateCache(cache, body, 1)
  /\ pc' = "fetched"
  /\ fetches' = fetches + 1
  /\ UNCHANGED << dropped, readerVars, mapperVars,
                  task, ctx, proc, last, prev, prevCache, recvErr >>

\* FetchK8sState returning nil; the response goes out of scope
FetchK8sStateOk ==
  /\ proc = "running" /\ pc = "start"
  /\ \E o \in { x \in Outcomes : x.body = "json" } :
     \E n \in 0..(IF o.req = "ok" THEN MaxEntities ELSE 0) :
     \E body \in K8sStateResponse(n) :
       FetchK8sStateBody(o, body) /\ state' = <<>>

\* FetchK8sState returning nil, the response it decoded kept on record
FetchK8sStateRecorded ==
  /\ proc = "running" /\ pc = "start"
  /\ \E o \in { x \in Outcomes : x.body = "json" } :
     \E n \in 0..(IF o.req = "ok" THEN MaxEntities ELSE 0) :
     \E body \in K8sStateResponse(n) :
       FetchK8sStateBody(o, body) /\ state' = body

\* K8sWatcher: log.Fatalf on a bootstrap error ends the process
K8sWatcherFatal ==
  /\ proc = "running" /\ pc = "fetchErr"
  /\ proc' = "exited"
  /\ pc' = "fatal"
  /\ UNCHANGED << dropped, readerVars, mapperVars,
                  cache, state, outcome, task, ctx, fetches, last, prev,
                  prevCache, recvErr >>

\* K8sWatcher starting the goroutine without waiting for FetchK8sState
K8sWatcherGoEarly ==
  /\ proc = "running" /\ pc \in { "start", "fetched" } /\ task = "none"
  /\ task' = "subscribing"
  /\ ctx' = "background"
  /\ pc' = IF pc = "fetched" THEN "returned" ELSE pc
  /\ state' = <<>>
  /\ UNCHANGED << dropped, readerVars, mapperVars,
                  cache, outcome, proc, fetches, last, prev, prevCache, recvErr >>

\* K8sWatcher: go SubscribeToRedis(context.Background(), nodeName), then
\* return enricher.cache
K8sWatcherGo ==
  /\ proc = "running" /\ pc = "fetched"
  /\ task' = "subscribing"
  /\ ctx' = "background"
  /\ pc' = "returned"
  /\ state' = <<>>
  /\ UNCHANGED << dropped, readerVars, mapperVars,
                  cache, outcome, proc, fetches, last, prev, prevCache, recvErr >>

\* a caller of the enricher that runs SubscribeToRedis, after its bootstrap,
\* with a context it can cancel
CallerSubscribe ==
  /\ proc = "running" /\ pc = "fetched"
  /\ task' = "subscribing"
  /\ ctx' = "cancellable"
  /\ pc' = "returned"
  /\ state' = <<>>
  /\ UNCHANGED << dropped, readerVars, mapperVars,
                  cache, outcome, proc, fetches, last, prev, prevCache, recvErr >>

\* the source publishes a change of a local pod on the channel after
\* FetchK8sState has read its snapshot and before redisClient.Subscribe has
\* run: the channel keeps nothing for later subscribers, the message is gone
PublishUnsubscribed ==
  /\ proc = "running"
  /\ pc \in { "fetched", "returned" }
  /\ task \in { "none", "subscribing" }
  /\ dropped = <<>>
  /\ \E c \in K8sContainer :
       dropped' = << ModifiedEvent(Pod(<<"web-1", "node-A">>, <<c>>)) >>
  /\ UNCHANGED << cache, pc, state, outcome, task, ctx, proc, fetches, last,
                  prev, prevCache, recvErr, readerVars, mapperVars >>

\* SubscribeToRedis up to the loop: redisClient.Subscribe
Subscribe ==
  /\ proc = "running" /\ task = "subscribing"
  /\ task' = "recv"
  /\ outcome' = NoOutcome
  /\ UNCHANGED << dropped, readerVars, mapperVars,
                  cache, pc, state, ctx, proc, fetches, last, prev,
                  prevCache, recvErr >>

\* one turn of the loop: ReceiveMessage returns a message, the payload is
\* decoded and the event applied; the loop goes back to the receive
ReceiveMessage ==
  /\ proc = "running" /\ task = "recv"
  /\ \E ev \in K8sRedisEvent :
       /\ cache' = ApplyEvent(cache, ev)
       /\ last' = ev
       /\ prev' = IF ~last.ok THEN "malformed"
                  ELSE IF Kind(last) = "Modified" /\ Entity(last) = Entity(ev)
                    THEN "ModifiedSameEntity"
                  ELSE "other"
  /\ prevCache' = cache
  /\ UNCHANGED << dropped, readerVars, mapperVars,
                  pc, state, outcome, task, ctx, proc, fetches, recvErr >>

\* the owner of the context cancels it
Cancel ==
  /\ proc = "running" /\ ctx = "cancellable"
  /\ ctx' = "cancelled"
  /\ UNCHANGED << dropped, readerVars, mapperVars,
                  cache, pc, state, outcome, task, proc, fetches, last, prev,
                  prevCache, recvErr >>

\* one turn of the loop on a payload that sets both Modified and Deleted, or
\* neither of them
ReceiveBoth ==
  /\ proc = "running" /\ task = "recv"
  /\ \E ev \in BothEvents \cup { NoEvent, RefreshEvent } :
       /\ cache' = ApplyEvent(cache, ev)
       /\ last' = ev
       /\ prev' = IF Kind(last) = "Modified" /\ Entity(last) = Entity(ev)
                    THEN "ModifiedSameEntity"
                  ELSE "other"
  /\ prevCache' = cache
  /\ UNCHANGED << dropped, readerVars, mapperVars,
                  pc, state, outcome, task, ctx, proc, fetches, recvErr >>

\* ReceiveMessage returns an error (the connection dropped, or the context
\* was cancelled): panic(err) in the goroutine takes the process down
ReceiveError ==
  /\ proc = "running" /\ task = "recv"
  /\ task' = "panicked"
  /\ proc' = "crashed"
  /\ recvErr' = << [cause |-> IF ctx = "cancelled" THEN "cancelled" ELSE "connection",
                    cache |-> cache] >>
  /\ UNCHANGED << dropped, readerVars, mapperVars,
                  cache, pc, state, outcome, ctx, fetches, last, prev, prevCache >>

\* ------------------------------------------------- the index and its readers
watcherVars ==
  << cache, pc, state, outcome, task, ctx, proc, fetches, last, prev,
     prevCache, recvErr >>

\* the local pods whose containers a writer loop goes through
WriterPods ==
  { Pod(<<"web-1", "node-A">>, << [Id |-> "docker://aa", Name |-> "app"],
                                 [Id |-> "docker://bb", Name |-> "db"] >>),
    Pod(<<"web-2", "node-A">>, << [Id |-> "pause", Name |-> "init"],
                                 [Id |-> "containerd://aa", Name |-> "sidecar"] >>) }

\* the address of a newly declared variable: one that nothing points to
Fresh(hp) == Min({ n \in 1..(Cardinality(DOMAIN hp) + 1) : n \notin DOMAIN hp })

\* the values still pointed to by the index, the writer or a reader; the
\* garbage collector frees the others
Collect(hp, m, wr, rs) ==
  LET roots == { m[k] : k \in DOMAIN m }
                 \cup (IF wr.op = "Modified" THEN { wr.fp } ELSE {})
                 \cup { rs[i].ptr : i \in { j \in Readers : rs[j].phase \in { "loaded", "name" } } }
  IN [a \in DOMAIN hp \cap roots |-> hp[a]]

\* the first index from i on of a container of pod with a canonical id,
\* Len + 1 if there is none: the loop skipping the ids that do not match
RECURSIVE NextMatch(_, _)
NextMatch(pod, i) ==
  IF i > Len(pod.Containers) THEN i
  ELSE IF ~matchContainerID(pod.Containers[i].Id).err THEN i
  ELSE NextMatch(pod, i + 1)

\* the writer at the container of index i of pod, or past the last one
WriterAt(op, pod, i) ==
  LET j == NextMatch(pod, i)
  IN IF j > Len(pod.Containers) THEN NoWrite
     ELSE [op |-> op, pod |-> pod, i |-> j,
           id |-> matchContainerID(pod.Containers[j].Id).id,
           step |-> IF op = "Modified" THEN "copy" ELSE "delete", fp |-> 0]

\* a writer loop enters the containers of a local pod: the bootstrap loop or
\* the Modified branch (op Modified), or the Deleted branch
WriterBegin ==
  /\ proc = "running" /\ writer = NoWrite
  /\ \E pod \in WriterPods, op \in { "Modified", "Deleted" } :
       /\ WriterAt(op, pod, 1) # NoWrite
       /\ writer' = WriterAt(op, pod, 1)
  /\ UNCHANGED << ptrs, heap, readers, watcherVars, dropped, mapperVars >>

\* filteredPod as a variable at the address of the record the index already
\* holds under the id, where there is one
WriterCopyInPlace ==
  /\ writer.op = "Modified" /\ writer.step = "copy"
  /\ LET a == IF writer.id \in DOMAIN ptrs THEN ptrs[writer.id] ELSE Fresh(heap)
     IN /\ heap' = [x \in DOMAIN heap \cup {a} |-> IF x = a THEN writer.pod ELSE heap[x]]
        /\ writer' = [writer EXCEPT !.fp = a, !.step = "reset"]
  /\ UNCHANGED << ptrs, readers, watcherVars, dropped, mapperVars >>

\* filteredPod := Pod: a new variable holding a copy of the pod
WriterCopy ==
  /\ writer.op = "Modified" /\ writer.step = "copy"
  /\ LET a == Fresh(heap)
     IN /\ heap' = [x \in DOMAIN heap \cup {a} |-> IF x = a THEN writer.pod ELSE heap[x]]
        /\ writer' = [writer EXCEPT !.fp = a, !.step = "reset"]
  /\ UNCHANGED << ptrs, readers, watcherVars, dropped, mapperVars >>

\* filteredPod.Containers = []K8sContainer{}
WriterReset ==
  /\ writer.op = "Modified" /\ writer.step = "reset"
  /\ heap' = [heap EXCEPT ![writer.fp].Containers = <<>>]
  /\ writer' = [writer EXCEPT !.step = "append"]
  /\ UNCHANGED << ptrs, readers, watcherVars, dropped, mapperVars >>

\* the inner loop: append the first container whose id is the same, break
WriterAppend ==
  /\ writer.op = "Modified" /\ writer.step = "append"
  /\ heap' = [heap EXCEPT ![writer.fp].Containers =
                 << writer.pod.Containers[
                      Min({ j \in 1..Len(writer.pod.Containers) :
                              matchContainerID(writer.pod.Containers[j].Id).id
                                = writer.id }) ] >>]
  /\ writer' = [writer EXCEPT !.step = "store"]
  /\ UNCHANGED << ptrs, readers, watcherVars, dropped, mapperVars >>

\* e.cache.Store(id, &filteredPod), then on to the next container
WriterStore ==
  /\ writer.op = "Modified" /\ writer.step = "store"
  /\ ptrs' = Store(ptrs, writer.id, writer.fp)
  /\ writer' = WriterAt("Modified", writer.pod, writer.i + 1)
  /\ heap' = Collect(heap, ptrs', writer', readers)
  /\ UNCHANGED << readers, watcherVars, dropped, mapperVars >>

\* e.cache.Delete(id), then on to the next container
WriterDelete ==
  /\ writer.op = "Deleted" /\ writer.step = "delete"
  /\ ptrs' = Delete(ptrs, writer.id)
  /\ writer' = WriterAt("Deleted", writer.pod, writer.i + 1)
  /\ heap' = Collect(heap, ptrs', writer', readers)
  /\ UNCHANGED << readers, watcherVars, dropped, mapperVars >>

\* the keys the readers ask for
ContainerIDs == { "aa", "bb" }

\* a reader calls Load(k): it gets the pointer stored under k, or nil and is
\* done. snap is the record the pointer led to at that moment.
ReaderLoad ==
  /\ proc = "running"
  /\ \E i \in Readers, k \in ContainerIDs :
       /\ readers[i].phase \in { "idle", "done" }
       /\ readers' = [readers EXCEPT ![i] =
            IF k \in DOMAIN ptrs
              THEN [phase |-> "loaded", k |-> k, ptr |-> ptrs[k],
                    snap |-> << heap[ptrs[k]] >>]
              ELSE [phase |-> "done", k |-> k, snap |-> <<>>, got |-> <<>>]]
  /\ UNCHANGED << ptrs, heap, writer, watcherVars, dropped, mapperVars >>

\* the reader reads the scalar fields through the pointer
ReaderFields ==
  /\ \E i \in Readers :
       /\ readers[i].phase = "loaded"
       /\ readers' = [readers EXCEPT ![i] =
            [phase |-> "name", k |-> readers[i].k, ptr |-> readers[i].ptr,
             snap |-> readers[i].snap,
             Name |-> heap[readers[i].ptr].Name,
             NodeName |-> heap[readers[i].ptr].NodeName]]
  /\ UNCHANGED << ptrs, heap, writer, watcherVars, dropped, mapperVars >>

\* the reader reads the containers through the pointer and has its record
ReaderContainers ==
  /\ \E i \in Readers :
       /\ readers[i].phase = "name"
       /\ readers' = [readers EXCEPT ![i] =
            [phase |-> "done", k |-> readers[i].k, snap |-> readers[i].snap,
             got |-> << [Name |-> readers[i].Name,
                         NodeName |-> readers[i].NodeName,
                         Containers |-> heap[readers[i].ptr].Containers] >>]]
  /\ heap' = Collect(heap, ptrs, writer, readers')
  /\ UNCHANGED << ptrs, writer, watcherVars, dropped, mapperVars >>

\* a writer loop and the readers of the index, step by step
NextReaders ==
  \/ WriterBegin
  \/ WriterCopy
  \/ WriterReset
  \/ WriterAppend
  \/ WriterStore
  \/ WriterDelete
  \/ ReaderLoad
  \/ ReaderFields
  \/ ReaderContainers

SpecReaders == Init /\ [][NextReaders]_vars

\* ------------------------------------------------------------ FileIDMapper
\* number of file IDs, and the size newFileIDMapper is called with
MaxFileID == 3
LruSize == 3

\* host.FileID, and libpf.FrameMappingFile with its zero value
FileID == 1..MaxFileID
ZeroMappingFile == "zero"
FrameMappingFile == { "m1", "m2", ZeroMappingFile }

\* MapFileIDMapper.Get: the value and true for a key of fileMap, the zero
\* value and true for any other key
MapFileIDMapperGet(fm, key) ==
  IF key \in DOMAIN fm
    THEN [v |-> fm[key], found |-> TRUE]
    ELSE [v |-> ZeroMappingFile, found |-> TRUE]

\* MapFileIDMapper.Set
MapFileIDMapperSet(fm, key, value) ==
  [x \in DOMAIN fm \cup {key} |-> IF x = key THEN value ELSE fm[x]]

\* the entries of the LRU other than that of key, in their order
RECURSIVE LruWithout(_, _)
LruWithout(c, key) ==
  IF c = <<>> THEN <<>>
  ELSE IF Head(c).key = key THEN LruWithout(Tail(c), key)
  ELSE << Head(c) >> \o LruWithout(Tail(c), key)

LruKeys(c) == { c[i].key : i \in 1..Len(c) }

LruValue(c, key) == (CHOOSE e \in { c[i] : i \in 1..Len(c) } : e.key = key).val

\* lruFileIDMapper.Get: cache.Get(key), and the zero value with false on a miss
lruFileIDMapperGet(c, key) ==
  IF key \in LruKeys(c)
    THEN [v |-> LruValue(c, key), found |-> TRUE]
    ELSE [v |-> ZeroMappingFile, found |-> FALSE]

\* the LRU after cache.Get(key): a hit makes the entry the most recent
LruAfterGet(c, key) ==
  IF key \in LruKeys(c)
    THEN << [key |-> key, val |-> LruValue(c, key)] >> \o LruWithout(c, key)
    ELSE c

\* lruFileIDMapper.Set: cache.Add(key, val) puts the entry first and, when
\* the cache is over its size, drops the least recently used one
lruFileIDMapperSet(c, key, val) ==
  LET added == << [key |-> key, val |-> val] >> \o LruWithout(c, key)
  IN IF Len(added) > LruSize THEN SubSeq(added, 1, LruSize) ELSE added

\* FileIDMapper.Set on both implementations, while the LRU has room
MapperSet ==
  \E key \in FileID, value \in FrameMappingFile :
    /\ key \in LruKeys(lru) \/ Len(lru) < LruSize
    /\ fileMap' = MapFileIDMapperSet(fileMap, key, value)
    /\ lru' = lruFileIDMapperSet(lru, key, value)
    /\ UNCHANGED << res, cache, pc, state, outcome, task, ctx, proc, fetches,
                    last, prev, prevCache, recvErr, dropped, readerVars >>

\* FileIDMapper.Get on both implementations
MapperGet ==
  \E key \in FileID :
    /\ res' = << [key |-> key,
                  map |-> MapFileIDMapperGet(fileMap, key),
                  lru |-> lruFileIDMapperGet(lru, key)] >>
    /\ lru' = LruAfterGet(lru, key)
    /\ UNCHANGED << fileMap, cache, pc, state, outcome, task, ctx, proc,
                    fetches, last, prev, prevCache, recvErr, dropped,
                    readerVars >>

\* the two mappers given the same calls
NextMapper ==
  \/ MapperSet
  \/ MapperGet

SpecMapper == Init /\ [][NextMapper]_vars

\* K8sWatcher: bootstrap, then the streaming goroutine on context.Background()
Next ==
  \/ FetchK8sStateError
  \/ FetchK8sStateOk
  \/ K8sWatcherFatal
  \/ K8sWatcherGo
  \/ Subscribe
  \/ ReceiveMessage
  \/ ReceiveError

Spec == Init /\ [][Next]_vars

\* the same enricher driven by a caller that hands SubscribeToRedis a context
\* of its own and may cancel it
NextCaller ==
  \/ FetchK8sStateError
  \/ FetchK8sStateOk
  \/ CallerSubscribe
  \/ Subscribe
  \/ ReceiveMessage
  \/ Cancel
  \/ ReceiveError

SpecCaller == Init /\ [][NextCaller]_vars

\* K8sWatcher on a channel whose payloads set both entities or none
NextBoth ==
  \/ FetchK8sStateOk
  \/ K8sWatcherGo
  \/ Subscribe
  \/ ReceiveBoth

SpecBoth == Init /\ [][NextBoth]_vars

\* K8sWatcher with a source that publishes while the bootstrap is going on
NextPublish ==
  \/ FetchK8sStateOk
  \/ K8sWatcherGo
  \/ PublishUnsubscribed
  \/ Subscribe
  \/ ReceiveMessage

SpecPublish == Init /\ [][NextPublish]_vars

\* FetchK8sState alone, with the response it decoded on record
NextBootstrap ==
  \/ FetchK8sStateError
  \/ FetchK8sStateRecorded

SpecBootstrap == Init /\ [][NextBootstrap]_vars

\* -------------------------------------------------------------- properties
\* the entities of a response that are on the local node and list a
\* container whose canonical id is k
LocalWith(entities, k) ==
  { i \in 1..Len(entities) :
      entities[i].NodeName = myNode /\ k \in Keys(entities[i]) }

\* the first container of pod whose canonical id is k
FirstWith(pod, k) ==
  pod.Containers[Min({ j \in 1..Len(pod.Containers) :
                        /\ ~matchContainerID(pod.Containers[j].Id).err
                        /\ matchContainerID(pod.Containers[j].Id).id = k })]

\* the pod of the last message, when that message carries one
LastPod == Entity(last)[1]

\* C1: every record in the index, after the bootstrap and after any sequence
\* of messages, is of the local node, and a message about a pod of another
\* node leaves the index as it was.
C1_LocalOnly ==
  /\ \A k \in DOMAIN cache : cache[k].NodeName = myNode
  /\ (Entity(last) # <<>> /\ LastPod.NodeName # myNode) => cache = prevCache

\* a Modified event for a pod of another node, with containers whose ids are
\* canonical, has been handled, and none of its keys is in the index
C1_Witness ==
  /\ Kind(last) = "Modified"
  /\ LastPod.NodeName # myNode
  /\ Keys(LastPod) # {}
  /\ Keys(LastPod) \cap DOMAIN cache = {}

\* C2 as stated: after a successful FetchK8sState, for every container c of
\* every node-local pod of the response whose id has a canonical key k, the
\* record under k holds exactly the one container c.
C2_Claim ==
  pc = "fetched" =>
    \A i \in 1..Len(state) : state[i].NodeName = myNode =>
      \A j \in 1..Len(state[i].Containers) :
        LET c == state[i].Containers[j]
            r == matchContainerID(c.Id)
        IN ~r.err => /\ r.id \in DOMAIN cache
                     /\ cache[r.id].Containers = << c >>

\* C2 amended: after a successful FetchK8sState, every key k of a container of
\* a node-local pod of the response is in the index, and its record is the
\* last node-local entity of the response that lists a container with key k,
\* restricted to the first such container of that entity. Hence the record
\* holds exactly c whenever c is the only fetched node-local container with
\* key k.
C2_Bootstrap ==
  pc = "fetched" =>
    \A i \in 1..Len(state) : state[i].NodeName = myNode =>
      \A k \in Keys(state[i]) :
        LET e == state[Max(LocalWith(state, k))]
        IN /\ k \in DOMAIN cache
           /\ cache[k] = [e EXCEPT !.Containers = << FirstWith(e, k) >>]

\* the bootstrap has stored a response in which two node-local entities list
\* containers with the same key, the later one listing two of them
C2_Witness ==
  /\ pc = "fetched"
  /\ Len(state) = 2
  /\ LocalWith(state, "aa") = { 1, 2 }
  /\ Len(state[2].Containers) = 2
  /\ Keys(state[2]) = { "aa" }
  /\ state[1].Name # state[2].Name

\* C3: each record stored under key k has exactly one container, and the
\* canonical id of that container is k.
C3_OneContainer ==
  \A k \in DOMAIN cache :
    /\ Len(cache[k].Containers) = 1
    /\ ~matchContainerID(cache[k].Containers[1].Id).err
    /\ matchContainerID(cache[k].Containers[1].Id).id = k

\* a Modified event of a local pod with two containers of the same key has
\* been applied to an index that also holds another key
C3_Witness ==
  /\ Kind(last) = "Modified"
  /\ LastPod.NodeName = myNode
  /\ Len(LastPod.Containers) = 2
  /\ Keys(LastPod) = { "aa" }
  /\ DOMAIN cache = { "aa", "bb" }

\* C4 as stated: after Modified(e) and then Deleted(e), for any entity e, no
\* key of a container of e is in the index.
C4_Claim ==
  (Kind(last) = "Deleted" /\ prev = "ModifiedSameEntity")
    => Keys(LastPod) \cap DOMAIN cache = {}

\* C4 amended: after Modified(e) and then Deleted(e), for an entity e whose
\* pod is on the local node, no key of a container of e is in the index.
C4_ModifiedThenDeleted ==
  (Kind(last) = "Deleted" /\ prev = "ModifiedSameEntity"
     /\ LastPod.NodeName = myNode)
    => Keys(LastPod) \cap DOMAIN cache = {}

\* Modified(e) and then Deleted(e) have been handled for a local pod with
\* containers of two different keys
C4_Witness ==
  /\ Kind(last) = "Deleted"
  /\ prev = "ModifiedSameEntity"
  /\ LastPod.NodeName = myNode
  /\ Keys(LastPod) = { "aa", "bb" }

\* C5 as stated: when the bootstrap request fails (transport error, timeout,
\* error answer of the source, or a body that does not decode) FetchK8sState
\* returns an error, the index stays empty and no streaming task is started.
C5_Claim ==
  (outcome.req \in { "transportError", "timeout", "errorStatus" }
     \/ outcome.body = "undecodable")
    => /\ pc \in { "fetchErr", "fatal" }
       /\ cache = EmptyMap
       /\ task = "none"

\* C6 as stated: after ReceiveMessage has returned an error the streaming
\* task has stopped, the index is as it was at that time, and the process
\* still runs, so that readers of the index are served.
C6_Claim ==
  recvErr # <<>>
    => /\ task # "recv"
       /\ cache = recvErr[1].cache
       /\ proc = "running"

\* C7: a message whose payload does not decode leaves the index as it was
\* and leaves the loop in its receive; a well-formed Modified or Deleted
\* event of a local pod handled right after it has taken effect on every key
\* of that pod.
C7_MalformedSkipped ==
  /\ Kind(last) = "malformed"
       => cache = prevCache /\ (recvErr = <<>> => task = "recv")
  /\ (prev = "malformed" /\ Kind(last) = "Modified" /\ LastPod.NodeName = myNode)
       => \A k \in Keys(LastPod) :
            k \in DOMAIN cache /\ cache[k].Name = LastPod.Name
  /\ (prev = "malformed" /\ Kind(last) = "Deleted" /\ LastPod.NodeName = myNode)
       => Keys(LastPod) \cap DOMAIN cache = {}

\* a payload that failed to decode after its Modified field was filled with
\* a local pod was received while the index did not hold that pod's key
C7_Witness ==
  /\ Kind(last) = "malformed"
  /\ last.Modified # <<>>
  /\ LastPod.NodeName = myNode
  /\ Keys(LastPod) # {}
  /\ Keys(LastPod) \cap DOMAIN cache = {}
  /\ task = "recv"

\* C8 as stated: when the context of the streaming task is cancelled and its
\* receive returns, the task returns, the index is as it was, and the process
\* goes on running.
C8_Claim ==
  (recvErr # <<>> /\ recvErr[1].cause = "cancelled")
    => /\ task = "returned"
       /\ cache = recvErr[1].cache
       /\ proc = "running"

\* C9 as stated: a Refresh event received by the streaming loop makes it
\* issue a new bootstrap request.
C9_Claim == Kind(last) = "Refresh" => fetches >= 2

\* C10: handling the Modified event that was handled just before leaves the
\* index exactly as the first handling left it.
C10_ModifiedIdempotent ==
  (Kind(last) = "Modified" /\ prev = "ModifiedSameEntity") => cache = prevCache

\* the same Modified event of a local pod with containers of both keys has
\* been handled twice in a row
C10_Witness ==
  /\ Kind(last) = "Modified"
  /\ prev = "ModifiedSameEntity"
  /\ LastPod.NodeName = myNode
  /\ Keys(LastPod) = { "aa", "bb" }

\* C11: per key, the last message decides. After a message is handled, a key
\* of a container listed by a local Modified event holds the record built
\* from that event, a key of a container listed by a local Deleted event is
\* absent, and every other key holds what it held before the message - by
\* induction the value left by the last message that touched it, or the
\* value the bootstrap stored.
C11_LastWriteWins ==
  prev # "none" =>
    \A k \in DOMAIN cache \cup DOMAIN prevCache \cup { "aa", "bb" } :
      IF Kind(last) = "Modified" /\ LastPod.NodeName = myNode /\ k \in Keys(LastPod)
        THEN Load(cache, k) =
               << [LastPod EXCEPT !.Containers = << FirstWith(LastPod, k) >>] >>
      ELSE IF Kind(last) = "Deleted" /\ LastPod.NodeName = myNode /\ k \in Keys(LastPod)
        THEN Load(cache, k) = <<>>
      ELSE Load(cache, k) = Load(prevCache, k)

\* a local Modified event has replaced the record that another pod had left
\* under one key, while the other key kept its record
C11_Witness ==
  /\ Kind(last) = "Modified"
  /\ LastPod.NodeName = myNode
  /\ Keys(LastPod) = { "aa" }
  /\ DOMAIN prevCache = { "aa", "bb" }
  /\ prevCache["aa"].Name # LastPod.Name
  /\ cache["aa"].Name = LastPod.Name

\* C14: a Modified or Deleted event of a pod of another node leaves the whole
\* index as it was, the records under that pod's own keys included.
C14_NonLocalIgnored ==
  (Kind(last) \in { "Modified", "Deleted" } /\ LastPod.NodeName # myNode)
    => /\ DOMAIN cache = DOMAIN prevCache
       /\ \A k \in DOMAIN prevCache : cache[k] = prevCache[k]

\* a Deleted event of a pod of another node has been handled while the index
\* held records under both keys of that pod
C14_Witness ==
  /\ Kind(last) = "Deleted"
  /\ LastPod.NodeName # myNode
  /\ Keys(LastPod) = { "aa", "bb" }
  /\ DOMAIN cache = { "aa", "bb" }

\* C16: a container whose id has no canonical match adds no key and removes
\* none, and the containers before and after it in the list are handled:
\* after a local Modified event the keys of the index are those it had plus
\* the keys of the pod, after a local Deleted event those it had minus the
\* keys of the pod, the empty id is never a key, and the loop goes on.
C16_MismatchSkipped ==
  /\ "" \notin DOMAIN cache
  /\ (Kind(last) = "Modified" /\ LastPod.NodeName = myNode)
       => /\ DOMAIN cache = DOMAIN prevCache \cup Keys(LastPod)
          /\ \A k \in Keys(LastPod) : cache[k].Name = LastPod.Name
  /\ (Kind(last) = "Deleted" /\ LastPod.NodeName = myNode)
       => DOMAIN cache = DOMAIN prevCache \ Keys(LastPod)
  /\ (prev # "none" /\ recvErr = <<>>) => task = "recv" /\ proc = "running"

\* a local Modified event whose first container has no canonical id and whose
\* second has one has been handled, and the key of the second is new
C16_Witness ==
  /\ Kind(last) = "Modified"
  /\ LastPod.NodeName = myNode
  /\ Len(LastPod.Containers) = 2
  /\ matchContainerID(LastPod.Containers[1].Id).err
  /\ Keys(LastPod) = { "bb" }
  /\ "bb" \notin DOMAIN prevCache
  /\ "bb" \in DOMAIN cache

\* C18: a local Modified or Deleted event changes no key but those of the
\* containers it lists, and a Deleted event none of whose keys is in the
\* index changes nothing and does not end the loop.
C18_OtherKeysKept ==
  (Kind(last) \in { "Modified", "Deleted" } /\ LastPod.NodeName = myNode)
    => /\ \A k \in (DOMAIN cache \cup DOMAIN prevCache) \ Keys(LastPod) :
            Load(cache, k) = Load(prevCache, k)
       /\ (Kind(last) = "Deleted" /\ Keys(LastPod) \cap DOMAIN prevCache = {})
            => cache = prevCache /\ (recvErr = <<>> => task = "recv")

\* a local Modified event of a pod that lists one container has been handled
\* while the index held a record of the same pod under the other key
C18_Witness ==
  /\ Kind(last) = "Modified"
  /\ LastPod.NodeName = myNode
  /\ Keys(LastPod) = { "aa" }
  /\ "bb" \in DOMAIN cache
  /\ cache["bb"].Name = LastPod.Name

\* C15: the bootstrap request is sent at most once: never before the call of
\* FetchK8sState ends, exactly once after it, whether it failed or not, and
\* not again once the streaming task exists.
C15_FetchOnce ==
  /\ fetches <= 1
  /\ pc = "start" => fetches = 0
  /\ (pc # "start" \/ task # "none") => fetches = 1

\* the bootstrap request timed out and K8sWatcher ended the process
C15_Witness ==
  /\ pc = "fatal"
  /\ outcome.req = "timeout"
  /\ fetches = 1

\* C13: the writers of the index never overlap: the streaming task exists
\* only once K8sWatcher has left FetchK8sState and returned, a step that
\* changes the index before that is the bootstrap's, and every later one is
\* the streaming task's receive loop.
C13_SingleWriter ==
  /\ [](task # "none" => pc = "returned")
  /\ [][cache' # cache =>
          \/ task = "none" /\ pc = "start" /\ pc' = "fetched" /\ task' = "none"
          \/ task = "recv" /\ pc = "returned" /\ task' = "recv"]_vars

\* the streaming task has changed an index that the bootstrap had filled
C13_Witness ==
  /\ task = "recv"
  /\ pc = "returned"
  /\ prevCache # EmptyMap
  /\ cache # prevCache

\* C19: a message applies at most one entity. When Modified and Deleted are
\* both set, the keys of a local Modified pod hold the record built from it
\* and every other key, those of the Deleted pod included, is as before;
\* when neither is set the index is as before.
C19_OneVariant ==
  prev # "none" =>
    /\ (last.Modified # <<>> /\ last.Deleted # <<>>) =>
         \A k \in DOMAIN cache \cup DOMAIN prevCache \cup Keys(last.Deleted[1]) :
           IF last.Modified[1].NodeName = myNode /\ k \in Keys(last.Modified[1])
             THEN /\ k \in DOMAIN cache
                  /\ cache[k].Name = last.Modified[1].Name
                  /\ cache[k].Containers = << FirstWith(last.Modified[1], k) >>
             ELSE Load(cache, k) = Load(prevCache, k)
    /\ (last.Modified = <<>> /\ last.Deleted = <<>>) =>
         /\ DOMAIN cache = DOMAIN prevCache
         /\ \A k \in DOMAIN cache : cache[k] = prevCache[k]

\* a message with both entities set has been handled: the record under the
\* key of its local Deleted pod, which its local Modified pod does not list,
\* is still there
C19_Witness ==
  /\ last.Modified # <<>> /\ last.Deleted # <<>>
  /\ last.Modified[1].NodeName = myNode
  /\ Keys(last.Modified[1]) = { "aa" }
  /\ Keys(last.Deleted[1]) = { "bb" }
  /\ "bb" \in DOMAIN prevCache
  /\ "bb" \in DOMAIN cache
  /\ "aa" \in DOMAIN cache

\* C17 as stated: no change published after the bootstrap snapshot was taken
\* is lost, those published before the subscription is active included: the
\* channel never discards a message of that time undelivered.
C17_Claim == dropped = <<>>

\* C20 as stated: given the same Set and Get calls within the size of the
\* LRU, the two mappers return the same pair from Get: the last value Set
\* with found = true, and found = false for a file ID never Set.
C20_Claim ==
  res # <<>> =>
    /\ res[1].map = res[1].lru
    /\ IF res[1].key \in DOMAIN fileMap
         THEN res[1].map = [v |-> fileMap[res[1].key], found |-> TRUE]
         ELSE ~res[1].map.found /\ ~res[1].lru.found

\* C12: every Load a reader starts ends, whatever the writer does meanwhile,
\* and the record it ends with is the whole record the key held when the
\* Load ran (or none): one container, of that key, under the name of the
\* same pod, never an empty or longer list and never fields of two records.
C12_NoTornRead ==
  \A i \in Readers :
    /\ readers[i].phase \in { "loaded", "name" } => readers[i].ptr \in DOMAIN heap
    /\ readers[i].phase = "done" =>
         /\ readers[i].got = readers[i].snap
         /\ readers[i].got # <<>> =>
              /\ Len(readers[i].got[1].Containers) = 1
              /\ matchContainerID(readers[i].got[1].Containers[1].Id).id = readers[i].k

\* a reader has ended with the record of a pod while the writer, building
\* the record of another pod for the same key, has replaced it in the index
C12_Witness ==
  \E i \in Readers :
    /\ readers[i].phase = "done"
    /\ readers[i].got # <<>>
    /\ readers[i].k \in DOMAIN ptrs
    /\ heap[ptrs[readers[i].k]].Name # readers[i].got[1].Name
    /\ writer # NoWrite

====
